---- MODULE Spec2Model ----
(***************************************************************************)
(* Model of the user authentication service                                *)
(* (0x03-user_authentication_service/auth.py on top of db.py).             *)
(*                                                                         *)
(* The store is the single memoized SQLAlchemy session of DB: `users` is   *)
(* the table as that session sees it (identity map included), one record   *)
(* per row, the row with primary key i at index i.  Every Auth method is   *)
(* an operator from the store and the call's arguments to an outcome       *)
(* [db, ret, exc, queries]; every action of the state machine is one call  *)
(* of one Auth method and records the call and its outcome in `last`.      *)
(***************************************************************************)
EXTENDS Integers, Sequences, FiniteSets, TLC

VARIABLES
    users,       \* DB._session: the rows of the users table, by id
    uuid_count,  \* how many values uuid.uuid4() has produced so far
    last,        \* the last call: method, arguments, the store before it, its outcome
    pending      \* per caller, the call it has in progress between two store accesses

vars == <<users, uuid_count, last, pending>>

---------------------------------------------------------------------------
(* Bounds of the model *)

NumEmails == 2
MaxUuids == 2
NumSalts == 2
NumCallers == 2

---------------------------------------------------------------------------
(* Python values *)

\* Python's None; a str is tagged so that it can be compared with None.
None == [type |-> "NoneType"]
Str(s) == [type |-> "str", str |-> s]

\* "no exception was raised"
NoExc == "-"

EmailText == <<"a@x.com", "b@x.com", "c@x.com", "d@x.com">>
Emails == {EmailText[i] : i \in 1..NumEmails}

\* The texts uuid.uuid4() renders, in the order they are drawn.
UuidText == <<"uuid-1", "uuid-2", "uuid-3", "uuid-4", "uuid-5", "uuid-6">>

Salts == 1..NumSalts

\* bcrypt reads at most this many bytes of the password.
BcryptMaxBytes == 72

Repeat(c, n) == [i \in 1..n |-> c]

\* Passwords are sequences of code points: "e-acute" (two bytes in UTF-8)
\* and two passwords of 73 characters that differ in the last one.
Passwords ==
    { <<233>>,
      Repeat(112, BcryptMaxBytes) \o <<97>>,
      Repeat(112, BcryptMaxBytes) \o <<98>> }

\* Arguments a caller may pass where a token is expected.
TokenArgs == {None, Str("")} \cup {Str(UuidText[i]) : i \in 1..MaxUuids}

\* Arguments a caller may pass where a user id is expected.
UserIdArgs == 1..(NumEmails + 1)

---------------------------------------------------------------------------
(* str.encode('utf-8') and bcrypt *)

RECURSIVE encode(_)
encode(s) ==
    IF s = <<>> THEN <<>>
    ELSE LET c == Head(s)
         IN  (IF c < 128 THEN <<c>>
              ELSE <<192 + (c \div 64), 128 + (c % 64)>>) \o encode(Tail(s))

\* password.encode('utf-8') of every password a caller passes, computed once.
utf8 == [password \in Passwords |-> encode(password)]

\* bcrypt.hashpw(password, salt): the digest is a one-way function of the salt
\* and of the first BcryptMaxBytes bytes of the password, and embeds the salt.
\* Two digests are equal exactly when the salt and those bytes are equal.
hashpw(password, salt) ==
    [salt |-> salt,
     digest |-> SubSeq(password, 1,
                       IF Len(password) < BcryptMaxBytes THEN Len(password)
                       ELSE BcryptMaxBytes)]

\* bcrypt.checkpw(password, hashed_password)
checkpw(password, hashed_password) ==
    hashpw(password, hashed_password.salt) = hashed_password

\* _hash_password(password); salt is what bcrypt.gensalt() returned
_hash_password(password, salt) == hashpw(utf8[password], salt)

\* _generate_uuid that renders one uuid, drawn once, at every call.
_generate_uuid_fixed(n) == Str(UuidText[1])

\* _generate_uuid(); n is the position of the draw.  The 122 random bits of a
\* uuid4 are taken never to repeat: the n-th draw differs from every earlier one.
_generate_uuid(n) == Str(UuidText[n])

---------------------------------------------------------------------------
(* user.py: the User row *)

UserColumns == {"id", "email", "hashed_password", "session_id", "reset_token"}

User(id, email, hashed_password) ==
    [id |-> id, email |-> email, hashed_password |-> hashed_password,
     session_id |-> None, reset_token |-> None]

---------------------------------------------------------------------------
(* db.py *)

\* DB.add_user
add_user(db, email, hashed_password) ==
    LET current_user == User(Len(db) + 1, email, hashed_password)
    IN  [db |-> Append(db, current_user), user |-> current_user]

\* DB.find_user_by(**kwargs); kwargs is a sequence of <<key, value>>.
\* filter_by(key=None) matches the rows whose column is NULL.
find_user_by(db, kwargs) ==
    IF \E j \in DOMAIN kwargs : kwargs[j][1] \notin UserColumns
    THEN [user |-> None, exc |-> "InvalidRequestError"]
    ELSE LET found == {i \in DOMAIN db :
                          \A j \in DOMAIN kwargs : db[i][kwargs[j][1]] = kwargs[j][2]}
         IN  IF found = {} THEN [user |-> None, exc |-> "NoResultFound"]
             ELSE IF Cardinality(found) > 1
                  THEN [user |-> None, exc |-> "InvalidRequestError"]
                  ELSE [user |-> db[CHOOSE i \in found : TRUE], exc |-> NoExc]

\* The loop of DB.update_user over kwargs.items(): setattr for a known
\* attribute, ValueError at the first unknown one (the attributes set before
\* it stay set on the object held by the session).
RECURSIVE set_attrs(_, _)
set_attrs(user, kwargs) ==
    IF kwargs = <<>> THEN [user |-> user, exc |-> NoExc]
    ELSE LET key == Head(kwargs)[1]
             value == Head(kwargs)[2]
         IN  IF key \in UserColumns
             THEN set_attrs([user EXCEPT ![key] = value], Tail(kwargs))
             ELSE [user |-> user, exc |-> "ValueError"]

\* update_user that sets the attributes on every row once the id is found.
update_user_every_row(db, user_id, kwargs) ==
    LET f == find_user_by(db, << <<"id", user_id>> >>)
    IN  IF f.exc # NoExc THEN [db |-> db, exc |-> f.exc]
        ELSE [db |-> [i \in DOMAIN db |-> set_attrs(db[i], kwargs).user],
              exc |-> set_attrs(f.user, kwargs).exc]

\* DB.update_user(user_id, **kwargs)
update_user(db, user_id, kwargs) ==
    LET f == find_user_by(db, << <<"id", user_id>> >>)
    IN  IF f.exc # NoExc THEN [db |-> db, exc |-> f.exc]
        ELSE LET s == set_attrs(f.user, kwargs)
             IN  [db |-> [db EXCEPT ![f.user.id] = s.user], exc |-> s.exc]

---------------------------------------------------------------------------
(* auth.py: class Auth *)

\* What a call of an Auth method leaves behind: the store, the value returned
\* (None when an exception was raised), the exception that left the method,
\* and how many times the call ran DB.find_user_by.
Outcome(db, ret, exc, queries) ==
    [db |-> db, ret |-> ret, exc |-> exc, queries |-> queries]

\* register_user without the lookup by email before the insert.
register_user_unchecked(db, email, password, salt) ==
    LET a == add_user(db, email, _hash_password(password, salt))
    IN  Outcome(a.db, a.user, NoExc, 0)

\* register_user that hashes something else than the password it was given.
register_user_wrong_hash(db, email, password, salt) ==
    LET f == find_user_by(db, << <<"email", email>> >>)
        other == CHOOSE p \in Passwords : utf8[p] # utf8[password] /\ Len(p) > 1
    IN  IF f.exc = NoExc THEN Outcome(db, None, "ValueError", 1)
        ELSE IF f.exc = "NoResultFound"
             THEN LET a == add_user(db, email, _hash_password(other, salt))
                  IN  Outcome(a.db, a.user, NoExc, 1)
             ELSE Outcome(db, None, f.exc, 1)

\* Auth.register_user(email, password)
register_user(db, email, password, salt) ==
    LET f == find_user_by(db, << <<"email", email>> >>)
    IN  IF f.exc = NoExc THEN Outcome(db, None, "ValueError", 1)
        ELSE IF f.exc = "NoResultFound"
             THEN LET a == add_user(db, email, _hash_password(password, salt))
                  IN  Outcome(a.db, a.user, NoExc, 1)
             ELSE Outcome(db, None, f.exc, 1)

\* valid_login that accepts any password of an existing user.
valid_login_any_password(db, email, password) ==
    LET f == find_user_by(db, << <<"email", email>> >>)
    IN  IF f.exc = "NoResultFound" THEN Outcome(db, FALSE, NoExc, 1)
        ELSE IF f.exc # NoExc THEN Outcome(db, None, f.exc, 1)
             ELSE Outcome(db, TRUE, NoExc, 1)

\* Auth.valid_login(email, password)
valid_login(db, email, password) ==
    LET f == find_user_by(db, << <<"email", email>> >>)
    IN  IF f.exc = "NoResultFound" THEN Outcome(db, FALSE, NoExc, 1)
        ELSE IF f.exc # NoExc THEN Outcome(db, None, f.exc, 1)
             ELSE IF checkpw(utf8[password], f.user.hashed_password)
                  THEN Outcome(db, TRUE, NoExc, 1)
                  ELSE Outcome(db, FALSE, NoExc, 1)

\* create_session that returns the new token without storing it.
create_session_unsaved(db, email, n) ==
    LET f == find_user_by(db, << <<"email", email>> >>)
    IN  IF f.exc = "NoResultFound" THEN Outcome(db, None, NoExc, 1)
        ELSE IF f.exc # NoExc THEN Outcome(db, None, f.exc, 1)
             ELSE Outcome(db, _generate_uuid(n), NoExc, 1)

\* create_session that hands back the session the user already holds.
create_session_keeps_existing(db, email, n) ==
    LET f == find_user_by(db, << <<"email", email>> >>)
    IN  IF f.exc = "NoResultFound" THEN Outcome(db, None, NoExc, 1)
        ELSE IF f.exc # NoExc THEN Outcome(db, None, f.exc, 1)
             ELSE IF f.user.session_id # None
                  THEN Outcome(db, f.user.session_id, NoExc, 1)
                  ELSE LET session_id == _generate_uuid(n)
                           u == update_user(db, f.user.id,
                                            << <<"session_id", session_id>> >>)
                       IN  Outcome(u.db, session_id, u.exc, 2)

\* Auth.create_session(email); n is the position of the uuid4 draw
create_session(db, email, n) ==
    LET f == find_user_by(db, << <<"email", email>> >>)
    IN  IF f.exc = "NoResultFound" THEN Outcome(db, None, NoExc, 1)
        ELSE IF f.exc # NoExc THEN Outcome(db, None, f.exc, 1)
             ELSE LET session_id == _generate_uuid(n)
                      u == update_user(db, f.user.id, << <<"session_id", session_id>> >>)
                  IN  IF u.exc = "NoResultFound" THEN Outcome(u.db, None, NoExc, 2)
                      ELSE IF u.exc # NoExc THEN Outcome(u.db, None, u.exc, 2)
                           ELSE Outcome(u.db, session_id, NoExc, 2)

\* get_user_from_session_id without the test for None.
get_user_from_session_id_unguarded(db, session_id) ==
    LET f == find_user_by(db, << <<"session_id", session_id>> >>)
    IN  IF f.exc = "NoResultFound" THEN Outcome(db, None, NoExc, 1)
        ELSE IF f.exc # NoExc THEN Outcome(db, None, f.exc, 1)
             ELSE Outcome(db, f.user, NoExc, 1)

\* Auth.get_user_from_session_id(session_id)
get_user_from_session_id(db, session_id) ==
    IF session_id = None THEN Outcome(db, None, NoExc, 0)
    ELSE LET f == find_user_by(db, << <<"session_id", session_id>> >>)
         IN  IF f.exc = "NoResultFound" THEN Outcome(db, None, NoExc, 1)
             ELSE IF f.exc # NoExc THEN Outcome(db, None, f.exc, 1)
                  ELSE Outcome(db, f.user, NoExc, 1)

\* destroy_session that finds the user and updates nothing.
destroy_session_no_update(db, user_id) ==
    LET f == find_user_by(db, << <<"id", user_id>> >>)
    IN  IF f.exc = "NoResultFound" THEN Outcome(db, None, NoExc, 1)
        ELSE Outcome(db, None, f.exc, 1)

\* destroy_session that lets NoResultFound out, as a ValueError.
destroy_session_raising(db, user_id) ==
    LET f == find_user_by(db, << <<"id", user_id>> >>)
    IN  IF f.exc = "NoResultFound" THEN Outcome(db, None, "ValueError", 1)
        ELSE IF f.exc # NoExc THEN Outcome(db, None, f.exc, 1)
             ELSE LET u == update_user(db, f.user.id, << <<"session_id", None>> >>)
                  IN  Outcome(u.db, None, u.exc, 2)

\* destroy_session that clears the pending reset token with the session.
destroy_session_clears_tokens(db, user_id) ==
    LET f == find_user_by(db, << <<"id", user_id>> >>)
    IN  IF f.exc = "NoResultFound" THEN Outcome(db, None, NoExc, 1)
        ELSE IF f.exc # NoExc THEN Outcome(db, None, f.exc, 1)
             ELSE LET u == update_user(db, f.user.id,
                                       << <<"session_id", None>>,
                                          <<"reset_token", None>> >>)
                  IN  Outcome(u.db, None, u.exc, 2)

\* Auth.destroy_session(user_id)
destroy_session(db, user_id) ==
    LET f == find_user_by(db, << <<"id", user_id>> >>)
    IN  IF f.exc = "NoResultFound" THEN Outcome(db, None, NoExc, 1)
        ELSE IF f.exc # NoExc THEN Outcome(db, None, f.exc, 1)
             ELSE LET u == update_user(db, f.user.id, << <<"session_id", None>> >>)
                  IN  IF u.exc = "NoResultFound" THEN Outcome(u.db, None, NoExc, 2)
                      ELSE Outcome(u.db, None, u.exc, 2)

\* get_reset_password_token that returns None for an unknown email.
get_reset_password_token_silent(db, email, n) ==
    LET f == find_user_by(db, << <<"email", email>> >>)
    IN  IF f.exc = "NoResultFound" THEN Outcome(db, None, NoExc, 1)
        ELSE IF f.exc # NoExc THEN Outcome(db, None, f.exc, 1)
             ELSE LET reset_token == _generate_uuid(n)
                      u == update_user(db, f.user.id, << <<"reset_token", reset_token>> >>)
                  IN  Outcome(u.db, reset_token, u.exc, 2)

\* Auth.get_reset_password_token(email); n is the position of the uuid4 draw
get_reset_password_token(db, email, n) ==
    LET f == find_user_by(db, << <<"email", email>> >>)
    IN  IF f.exc = "NoResultFound" THEN Outcome(db, None, "ValueError", 1)
        ELSE IF f.exc # NoExc THEN Outcome(db, None, f.exc, 1)
             ELSE LET reset_token == _generate_uuid(n)
                      u == update_user(db, f.user.id, << <<"reset_token", reset_token>> >>)
                  IN  IF u.exc = "NoResultFound" THEN Outcome(u.db, None, "ValueError", 2)
                      ELSE IF u.exc # NoExc THEN Outcome(u.db, None, u.exc, 2)
                           ELSE Outcome(u.db, reset_token, NoExc, 2)

\* update_password that also closes the user's session.
update_password_clears_session(db, reset_token, password, salt) ==
    LET f == find_user_by(db, << <<"reset_token", reset_token>> >>)
    IN  IF f.exc = "NoResultFound" THEN Outcome(db, None, "ValueError", 1)
        ELSE IF f.exc # NoExc THEN Outcome(db, None, f.exc, 1)
             ELSE LET u == update_user(db, f.user.id,
                                       << <<"hashed_password", _hash_password(password, salt)>>,
                                          <<"reset_token", None>>,
                                          <<"session_id", None>> >>)
                  IN  Outcome(u.db, None, u.exc, 2)

\* Auth.update_password(reset_token, password)
update_password(db, reset_token, password, salt) ==
    LET f == find_user_by(db, << <<"reset_token", reset_token>> >>)
    IN  IF f.exc = "NoResultFound" THEN Outcome(db, None, "ValueError", 1)
        ELSE IF f.exc # NoExc THEN Outcome(db, None, f.exc, 1)
             ELSE LET u == update_user(db, f.user.id,
                                       << <<"hashed_password", _hash_password(password, salt)>>,
                                          <<"reset_token", None>> >>)
                  IN  IF u.exc = "NoResultFound" THEN Outcome(u.db, None, "ValueError", 2)
                      ELSE Outcome(u.db, None, u.exc, 2)

---------------------------------------------------------------------------
(* The state machine: one action per call of an Auth method *)

\* The record of a call: the method, its arguments, the store as the call
\* found it, and the call's outcome.
Call(op, args, pre, r) ==
    [op |-> op, args |-> args, pre |-> pre,
     ret |-> r.ret, exc |-> r.exc, queries |-> r.queries]

\* The id of the user a lookup by one column finds, 0 when it finds none.
IdBy(db, key, value) ==
    LET f == find_user_by(db, << <<key, value>> >>)
    IN  IF f.exc = NoExc THEN f.user.id ELSE 0

\* The callers that may each have one call of an Auth method in progress.
Callers == 1..NumCallers

\* A caller with no call in progress.
Idle == [op |-> "-", pc |-> "idle", args |-> <<>>, user_id |-> 0, exc |-> NoExc]

Init ==
    /\ users = <<>>
    /\ uuid_count = 0
    /\ last = [op |-> "__init__", args |-> <<>>, pre |-> <<>>,
               ret |-> None, exc |-> NoExc, queries |-> 0]
    /\ pending = [c \in Callers |-> Idle]

RegisterUser ==
    \E email \in Emails, password \in Passwords, salt \in Salts :
        LET r == register_user(users, email, password, salt)
        IN  /\ users' = r.db
            /\ last' = Call("register_user", [email |-> email, password |-> password], users, r)
            /\ UNCHANGED <<uuid_count, pending>>

ValidLogin ==
    \E email \in Emails, password \in Passwords :
        LET r == valid_login(users, email, password)
        IN  /\ users' = r.db
            /\ last' = Call("valid_login", [email |-> email, password |-> password], users, r)
            /\ UNCHANGED <<uuid_count, pending>>

CreateSession ==
    \E email \in Emails :
        LET drawn == IdBy(users, "email", email) # 0
            r == create_session(users, email, uuid_count + 1)
        IN  /\ drawn => uuid_count < MaxUuids
            /\ users' = r.db
            /\ last' = Call("create_session", [email |-> email], users, r)
            /\ uuid_count' = IF drawn THEN uuid_count + 1 ELSE uuid_count
            /\ UNCHANGED pending

GetUserFromSessionId ==
    \E session_id \in TokenArgs :
        LET r == get_user_from_session_id(users, session_id)
        IN  /\ users' = r.db
            /\ last' = Call("get_user_from_session_id", [session_id |-> session_id], users, r)
            /\ UNCHANGED <<uuid_count, pending>>

DestroySession ==
    \E user_id \in UserIdArgs :
        LET r == destroy_session(users, user_id)
        IN  /\ users' = r.db
            /\ last' = Call("destroy_session", [user_id |-> user_id], users, r)
            /\ UNCHANGED <<uuid_count, pending>>

GetResetPasswordToken ==
    \E email \in Emails :
        LET drawn == IdBy(users, "email", email) # 0
            r == get_reset_password_token(users, email, uuid_count + 1)
        IN  /\ drawn => uuid_count < MaxUuids
            /\ users' = r.db
            /\ last' = Call("get_reset_password_token", [email |-> email], users, r)
            /\ uuid_count' = IF drawn THEN uuid_count + 1 ELSE uuid_count
            /\ UNCHANGED pending

UpdatePassword ==
    \E reset_token \in TokenArgs, password \in Passwords, salt \in Salts :
        LET r == update_password(users, reset_token, password, salt)
        IN  /\ users' = r.db
            /\ last' = Call("update_password", [reset_token |-> reset_token, password |-> password], users, r)
            /\ UNCHANGED <<uuid_count, pending>>

Next ==
    \/ RegisterUser
    \/ ValidLogin
    \/ CreateSession
    \/ GetUserFromSessionId
    \/ DestroySession
    \/ GetResetPasswordToken
    \/ UpdatePassword

Spec == Init /\ [][Next]_vars

---------------------------------------------------------------------------
(* The store called directly: DB.update_user and DB.find_user_by with keyword
   arguments of the caller's choice, on rows made by register_user *)

\* Values a caller passes for session_id or reset_token.
StoreValues == {None, Str(UuidText[1])}

\* Keyword arguments of a call of DB.update_user, in the order given: known
\* attributes alone, and a known attribute before or after an unknown one.
UpdateKwargs ==
    UNION { { << <<"session_id", v>> >>,
              << <<"reset_token", v>> >>,
              << <<"session_id", v>>, <<"no_such_field", v>> >>,
              << <<"no_such_field", v>>, <<"session_id", v>> >> }
            : v \in StoreValues }

\* Keyword arguments of a call of DB.find_user_by.
FindKwargs ==
    { << <<"email", e>> >> : e \in Emails }
        \cup { << <<"session_id", v>> >> : v \in StoreValues }
        \cup { << <<"no_such_field", None>> >> }

UpdateUser ==
    \E user_id \in UserIdArgs, kwargs \in UpdateKwargs :
        LET r == update_user(users, user_id, kwargs)
        IN  /\ users' = r.db
            /\ last' = Call("update_user", [user_id |-> user_id, kwargs |-> kwargs],
                            users, Outcome(r.db, None, r.exc, 1))
            /\ UNCHANGED <<uuid_count, pending>>

FindUserBy ==
    \E kwargs \in FindKwargs :
        LET f == find_user_by(users, kwargs)
        IN  /\ last' = Call("find_user_by", [kwargs |-> kwargs],
                            users, Outcome(users, f.user, f.exc, 1))
            /\ UNCHANGED <<users, uuid_count, pending>>

NextStore ==
    \/ RegisterUser
    \/ UpdateUser
    \/ FindUserBy

SpecStore == Init /\ [][NextStore]_vars

---------------------------------------------------------------------------
(* Callers that interleave: register_user and update_password run as two
   steps each, the lookup and the write, and another caller's step may come
   between the two.  pending[c].pc is where caller c stands: "idle", "found"
   (the lookup is done and the write is still to come) or "returned". *)

\* Reset tokens a caller presents: strings that uuid4 issues.
IssuedTokenArgs == {Str(UuidText[i]) : i \in 1..MaxUuids}

\* The email the interleaving callers register.
CallerEmails == {EmailText[1]}

\* Passwords the interleaving callers pass; with the salts they give two
\* different hashes.
CallerPasswords == {p \in Passwords : Len(p) = 1}

\* A call that has returned or raised exc.
Returned(op, args, exc) ==
    [op |-> op, pc |-> "returned", args |-> args, user_id |-> 0, exc |-> exc]

\* A call between its lookup and its write; user_id is user.id of the row the
\* lookup returned, 0 when it returned none.
Found(op, args, user_id) ==
    [op |-> op, pc |-> "found", args |-> args, user_id |-> user_id, exc |-> NoExc]

\* Auth.register_user up to the lookup: find_user_by(email=email), and
\* ValueError when it returns a row.
RegisterLookup ==
    \E c \in Callers, email \in CallerEmails :
        LET f == find_user_by(users, << <<"email", email>> >>)
            args == [email |-> email]
        IN  /\ pending[c].pc # "found"
            /\ pending' = [pending EXCEPT ![c] =
                   IF f.exc = NoExc THEN Returned("register_user", args, "ValueError")
                   ELSE IF f.exc = "NoResultFound" THEN Found("register_user", args, 0)
                        ELSE Returned("register_user", args, f.exc)]
            /\ UNCHANGED <<users, uuid_count, last>>

\* Auth.register_user after NoResultFound: add_user(email, _hash_password(password)).
RegisterInsert ==
    \E c \in Callers, password \in CallerPasswords, salt \in Salts :
        LET call == pending[c]
            a == add_user(users, call.args.email, _hash_password(password, salt))
        IN  /\ call.pc = "found"
            /\ call.op = "register_user"
            /\ users' = a.db
            /\ pending' = [pending EXCEPT ![c] = Returned(call.op, call.args, NoExc)]
            /\ UNCHANGED <<uuid_count, last>>

\* Auth.update_password up to the lookup: find_user_by(reset_token=reset_token),
\* and ValueError on NoResultFound.
UpdatePasswordLookup ==
    \E c \in Callers, reset_token \in IssuedTokenArgs :
        LET f == find_user_by(users, << <<"reset_token", reset_token>> >>)
            args == [reset_token |-> reset_token]
        IN  /\ pending[c].pc # "found"
            /\ pending' = [pending EXCEPT ![c] =
                   IF f.exc = "NoResultFound" THEN Returned("update_password", args, "ValueError")
                   ELSE IF f.exc # NoExc THEN Returned("update_password", args, f.exc)
                        ELSE Found("update_password", args, f.user.id)]
            /\ UNCHANGED <<users, uuid_count, last>>

\* Auth.update_password after the lookup:
\* update_user(user.id, hashed_password=_hash_password(password), reset_token=None).
UpdatePasswordUpdate ==
    \E c \in Callers, password \in CallerPasswords, salt \in Salts :
        LET call == pending[c]
            u == update_user(users, call.user_id,
                             << <<"hashed_password", _hash_password(password, salt)>>,
                                <<"reset_token", None>> >>)
        IN  /\ call.pc = "found"
            /\ call.op = "update_password"
            /\ users' = u.db
            /\ pending' = [pending EXCEPT ![c] =
                   Returned(call.op, call.args,
                            IF u.exc = "NoResultFound" THEN "ValueError" ELSE u.exc)]
            /\ UNCHANGED <<uuid_count, last>>

NextRace ==
    \/ RegisterLookup
    \/ RegisterInsert
    \/ GetResetPasswordToken
    \/ UpdatePasswordLookup
    \/ UpdatePasswordUpdate

SpecRace == Init /\ [][NextRace]_vars

---------------------------------------------------------------------------
(* Properties *)

\* The ids of the rows of db with the given email.
IdsOf(db, email) == {i \in DOMAIN db : db[i].email = email}

Registered(db, email) == IdsOf(db, email) # {}

\* Every row of db keeps its hashed_password and reset_token in db2.
SameCredentials(db, db2) ==
    /\ DOMAIN db = DOMAIN db2
    /\ \A i \in DOMAIN db :
          /\ db2[i].hashed_password = db[i].hashed_password
          /\ db2[i].reset_token = db[i].reset_token

\* C1: register_user for an email that already has a User raises ValueError
\* (DuplicateUser), creates no row and leaves every existing row as it was,
\* whatever calls came before.
C1_DuplicateRegistrationRejected ==
    (last.op = "register_user" /\ Registered(last.pre, last.args.email))
        => /\ last.exc = "ValueError"
           /\ users = last.pre
           /\ Cardinality(IdsOf(users, last.args.email)) = 1

\* C1 witness: a registration was refused for an email whose user had
\* already opened a session.
C1_Witness ==
    /\ last.op = "register_user"
    /\ last.exc = "ValueError"
    /\ \E i \in IdsOf(users, last.args.email) : users[i].session_id # None

\* C2: right after register_user(email, password) succeeded, valid_login(email, p)
\* is True for p = password and False for every other password p.
C2_LoginAcceptsOnlyRegisteredPassword ==
    (last.op = "register_user" /\ last.exc = NoExc)
        => \A p \in Passwords :
              LET v == valid_login(users, last.args.email, p)
              IN  v.exc = NoExc /\ v.ret = (p = last.args.password)

\* C3: create_session for an email with no User returns None and changes no
\* row; for a registered email it returns a non-empty token, and
\* get_user_from_session_id of that token, called next, returns the User with
\* that email.
C3_CreateSessionResolves ==
    last.op = "create_session"
        => IF ~Registered(last.pre, last.args.email)
           THEN last.exc = NoExc /\ last.ret = None /\ users = last.pre
           ELSE /\ last.exc = NoExc
                /\ last.ret # None
                /\ last.ret.str # ""
                /\ LET g == get_user_from_session_id(users, last.ret)
                   IN  /\ g.exc = NoExc
                       /\ g.ret # None
                       /\ g.ret.email = last.args.email

\* C3 witness: create_session returned a token for a registered email while
\* another user exists.
C3_Witness ==
    /\ last.op = "create_session"
    /\ last.ret # None
    /\ Len(users) = 2
    /\ \E i \in IdsOf(users, last.args.email) : users[i].session_id = last.ret

\* C4: after destroy_session(user_id) for a user whose session token was t,
\* get_user_from_session_id(t) returns None and the user's session_id is None.
C4_DestroyedSessionUnresolvable ==
    (/\ last.op = "destroy_session"
     /\ last.args.user_id \in DOMAIN last.pre
     /\ last.pre[last.args.user_id].session_id # None)
        => LET g == get_user_from_session_id(
                        users, last.pre[last.args.user_id].session_id)
           IN  /\ g.exc = NoExc
               /\ g.ret = None
               /\ users[last.args.user_id].session_id = None

\* C4 witness: destroy_session ran for a user that held a session token.
C4_Witness ==
    /\ last.op = "destroy_session"
    /\ last.args.user_id \in DOMAIN last.pre
    /\ last.pre[last.args.user_id].session_id # None
    /\ users[last.args.user_id].session_id = None

\* C5: destroy_session never raises; for a user_id that matches no User it
\* changes no row; and a second call in a row for the same user_id raises
\* nothing and leaves the store as the first call left it.
C5_DestroySessionIdempotent ==
    last.op = "destroy_session"
        => /\ last.exc = NoExc
           /\ (last.args.user_id \notin DOMAIN last.pre => users = last.pre)
           /\ LET again == destroy_session(users, last.args.user_id)
              IN  again.exc = NoExc /\ again.db = users

\* C5 witness: destroy_session ran for a user_id that matches no User while a
\* session was open.
C5_Witness ==
    /\ last.op = "destroy_session"
    /\ last.args.user_id \notin DOMAIN last.pre
    /\ \E i \in DOMAIN users : users[i].session_id # None

\* C6: update_password(t, new), with t the reset token get_reset_password_token
\* stored for a user, succeeds; afterwards valid_login(email, new) is True,
\* valid_login(email, old) is False for every password old that logged in
\* before and differs from new, the user's reset_token is None, and a second
\* update_password(t, anything) raises ValueError.
C6_ResetFlowSingleUse ==
    (/\ last.op = "update_password"
     /\ last.args.reset_token # None
     /\ IdBy(last.pre, "reset_token", last.args.reset_token) # 0)
        => LET i == IdBy(last.pre, "reset_token", last.args.reset_token)
               email == last.pre[i].email
           IN  /\ last.exc = NoExc
               /\ valid_login(users, email, last.args.password).ret = TRUE
               /\ \A old \in Passwords \ {last.args.password} :
                     valid_login(last.pre, email, old).ret = TRUE
                         => valid_login(users, email, old).ret = FALSE
               /\ users[i].reset_token = None
               /\ \A p \in Passwords, salt \in Salts :
                     update_password(users, last.args.reset_token, p, salt).exc
                         = "ValueError"

\* C7: update_password with a reset_token argument (None included) that is
\* not the stored non-None reset_token of some User raises ValueError and
\* changes no User's hashed_password or reset_token.
C7_InvalidResetTokenRejected ==
    (/\ last.op = "update_password"
     /\ ~(/\ last.args.reset_token # None
          /\ \E i \in DOMAIN last.pre :
                last.pre[i].reset_token = last.args.reset_token))
        => /\ last.exc = "ValueError"
           /\ SameCredentials(last.pre, users)

\* C8: get_reset_password_token for an email with no User raises ValueError
\* and changes no row; for a registered email it stores a newly generated
\* token as that user's reset_token and returns that same token.
C8_ResetTokenIssued ==
    last.op = "get_reset_password_token"
        => IF ~Registered(last.pre, last.args.email)
           THEN last.exc = "ValueError" /\ users = last.pre
           ELSE /\ last.exc = NoExc
                /\ last.ret # None
                /\ \A i \in IdsOf(users, last.args.email) :
                      users[i].reset_token = last.ret
                /\ \A i \in DOMAIN last.pre :
                      /\ last.pre[i].reset_token # last.ret
                      /\ last.pre[i].session_id # last.ret

\* C8 witness: a reset token was issued to a user that already held one.
C8_Witness ==
    /\ last.op = "get_reset_password_token"
    /\ last.exc = NoExc
    /\ \E i \in IdsOf(last.pre, last.args.email) :
          /\ last.pre[i].reset_token # None
          /\ users[i].reset_token = last.ret

\* The user get_user_from_session_id is to return for a non-None argument:
\* the one whose session_id equals it, None when there is none.
HolderOf(db, session_id) ==
    IF \E i \in DOMAIN db : db[i].session_id = session_id
    THEN db[CHOOSE i \in DOMAIN db : db[i].session_id = session_id]
    ELSE None

\* C9 as stated: get_user_from_session_id returns None without any store
\* lookup when session_id is None or the empty string, returns None and does
\* not raise when a non-empty session_id is no User's session_id, and
\* otherwise returns the User whose session_id equals the argument.
C9_ResolveSessionAsStated ==
    last.op = "get_user_from_session_id"
        => /\ last.exc = NoExc
           /\ users = last.pre
           /\ IF last.args.session_id \in {None, Str("")}
              THEN last.ret = None /\ last.queries = 0
              ELSE last.ret = HolderOf(last.pre, last.args.session_id)

\* C9 amended: get_user_from_session_id returns None without any store lookup
\* when session_id is None; for every other argument, the empty string
\* included, it runs one lookup, does not raise, and returns the User whose
\* session_id equals the argument, None when there is none (there is none for
\* the empty string).
C9_ResolveSession ==
    last.op = "get_user_from_session_id"
        => /\ last.exc = NoExc
           /\ users = last.pre
           /\ IF last.args.session_id = None
              THEN last.ret = None /\ last.queries = 0
              ELSE /\ last.queries = 1
                   /\ last.ret = HolderOf(last.pre, last.args.session_id)
                   /\ (last.args.session_id = Str("") => last.ret = None)

\* C9 witness: get_user_from_session_id("") ran its lookup and returned None
\* while one user had a session open and the other had none.
C9_Witness ==
    /\ last.op = "get_user_from_session_id"
    /\ last.args.session_id = Str("")
    /\ last.queries = 1
    /\ last.ret = None
    /\ Cardinality({i \in DOMAIN users : users[i].session_id = None}) = 1
    /\ Len(users) = 2

\* C10: valid_login never raises and never changes the store; for an email
\* with no User it returns False, and for an existing User it returns what
\* bcrypt.checkpw gives for the encoded password and the stored hash.
C10_ValidLoginPure ==
    last.op = "valid_login"
        => /\ last.exc = NoExc
           /\ users = last.pre
           /\ IF ~Registered(last.pre, last.args.email)
              THEN last.ret = FALSE
              ELSE \A i \in IdsOf(last.pre, last.args.email) :
                      last.ret = checkpw(utf8[last.args.password],
                                         last.pre[i].hashed_password)

\* C10 witness: valid_login returned True for a registered user that holds a
\* session and a pending reset token.
C10_Witness ==
    /\ last.op = "valid_login"
    /\ last.ret = TRUE
    /\ \E i \in IdsOf(users, last.args.email) :
          users[i].session_id # None /\ users[i].reset_token # None

\* The last call was destroy_session for user i.
DestroysSessionOf(i) == last.op = "destroy_session" /\ last.args.user_id = i

\* The last call was create_session for the email of user i.
CreatesSessionOf(i) ==
    last.op = "create_session" /\ last.args.email = last.pre[i].email

\* The session token user i held before the last call still resolves to user i.
SessionStillResolves(i) ==
    LET g == get_user_from_session_id(users, last.pre[i].session_id)
    IN  g.exc = NoExc /\ g.ret # None /\ g.ret.id = i

\* C11 as stated: a session token that resolved to user u keeps resolving to
\* u over every call that is not destroy_session(u.id).
C11_SessionValidUntilDestroyedAsStated ==
    \A i \in DOMAIN last.pre :
        (last.pre[i].session_id # None /\ ~DestroysSessionOf(i))
            => SessionStillResolves(i)

\* C11 amended: a session token that resolved to user u keeps resolving to u
\* over every call that is neither destroy_session(u.id) nor
\* create_session(u.email).
C11_SessionValidUntilDestroyed ==
    \A i \in DOMAIN last.pre :
        (/\ last.pre[i].session_id # None
         /\ ~DestroysSessionOf(i)
         /\ ~CreatesSessionOf(i))
            => SessionStillResolves(i)

\* C11 witness: update_password changed the password of a user that held a
\* session, and the session token still resolves to that user.
C11_Witness ==
    /\ last.op = "update_password"
    /\ last.exc = NoExc
    /\ \E i \in DOMAIN last.pre :
          /\ last.pre[i].session_id # None
          /\ last.pre[i].hashed_password # users[i].hashed_password
          /\ SessionStillResolves(i)

\* The last call was a successful update_password with the reset token of user i.
ConsumesResetTokenOf(i) ==
    /\ last.op = "update_password"
    /\ last.exc = NoExc
    /\ last.args.reset_token = last.pre[i].reset_token

\* The last call was get_reset_password_token for the email of user i.
RequestsResetOf(i) ==
    last.op = "get_reset_password_token" /\ last.args.email = last.pre[i].email

\* update_password with the reset token user i held before the last call
\* succeeds now, for every new password, and sets the password of user i.
ResetTokenStillWorks(i) ==
    \A p \in Passwords, salt \in Salts :
        LET r == update_password(users, last.pre[i].reset_token, p, salt)
        IN  /\ r.exc = NoExc
            /\ r.db[i].hashed_password = _hash_password(p, salt)
            /\ r.db[i].reset_token = None
            /\ valid_login(r.db, users[i].email, p).ret = TRUE

\* C12 as stated: a reset token stored for user u keeps working over every
\* call that is not a successful update_password with that token.
C12_ResetTokenValidUntilConsumedAsStated ==
    \A i \in DOMAIN last.pre :
        (last.pre[i].reset_token # None /\ ~ConsumesResetTokenOf(i))
            => ResetTokenStillWorks(i)

\* C12 amended: a reset token stored for user u keeps working over every call
\* that is neither a successful update_password with that token nor
\* get_reset_password_token(u.email).
C12_ResetTokenValidUntilConsumed ==
    \A i \in DOMAIN last.pre :
        (/\ last.pre[i].reset_token # None
         /\ ~ConsumesResetTokenOf(i)
         /\ ~RequestsResetOf(i))
            => ResetTokenStillWorks(i)

\* C12 witness: destroy_session closed the session of a user that had a reset
\* pending, and the reset token still works.
C12_Witness ==
    /\ last.op = "destroy_session"
    /\ \E i \in DOMAIN last.pre :
          /\ last.args.user_id = i
          /\ last.pre[i].session_id # None
          /\ last.pre[i].reset_token # None
          /\ ResetTokenStillWorks(i)

\* C13: create_session for a user that already holds session token t1
\* returns a token t2 that becomes the stored session_id;
\* get_user_from_session_id(t2) returns the user and
\* get_user_from_session_id(t1) returns None.
C13_OneActiveSession ==
    last.op = "create_session"
        => \A i \in IdsOf(last.pre, last.args.email) :
              last.pre[i].session_id # None
                  => /\ last.exc = NoExc
                     /\ last.ret # None
                     /\ users[i].session_id = last.ret
                     /\ LET g2 == get_user_from_session_id(users, last.ret)
                            g1 == get_user_from_session_id(
                                      users, last.pre[i].session_id)
                        IN  /\ g2.exc = NoExc
                            /\ g2.ret = users[i]
                            /\ g1.exc = NoExc
                            /\ g1.ret = None

\* C13 witness: create_session replaced the session token a user held.
C13_Witness ==
    /\ last.op = "create_session"
    /\ \E i \in IdsOf(last.pre, last.args.email) :
          /\ last.pre[i].session_id # None
          /\ users[i].session_id = last.ret
          /\ last.ret # last.pre[i].session_id

\* C14: a successful register_user adds exactly one row, with the given
\* email, an id that no existing row has, a hashed_password that verifies the
\* given password, and session_id and reset_token None; it returns that row
\* and changes no existing row.
C14_RegisterAddsOneUser ==
    (last.op = "register_user" /\ last.exc = NoExc)
        => /\ Len(users) = Len(last.pre) + 1
           /\ SubSeq(users, 1, Len(last.pre)) = last.pre
           /\ LET new == users[Len(users)]
              IN  /\ new.email = last.args.email
                  /\ \A i \in DOMAIN last.pre : last.pre[i].id # new.id
                  /\ checkpw(utf8[last.args.password], new.hashed_password)
                  /\ valid_login(users, last.args.email, last.args.password).ret = TRUE
                  /\ new.session_id = None
                  /\ new.reset_token = None
                  /\ last.ret = new

\* C14 witness: a second user was registered while the first one held a
\* session and a reset token.
C14_Witness ==
    /\ last.op = "register_user"
    /\ last.exc = NoExc
    /\ Len(users) = 2
    /\ users[1].session_id # None
    /\ users[1].reset_token # None

\* C18: no two rows hold the same non-None session_id and no two hold the
\* same non-None reset_token, so that a lookup by a non-None token never
\* finds more than one row.
C18_TokensBoundToOneUser ==
    /\ \A i, j \in DOMAIN users :
          i # j => /\ users[i].session_id # None
                      => users[i].session_id # users[j].session_id
                   /\ users[i].reset_token # None
                      => users[i].reset_token # users[j].reset_token
    /\ \A t \in TokenArgs \ {None} :
          /\ find_user_by(users, << <<"session_id", t>> >>).exc
                 # "InvalidRequestError"
          /\ find_user_by(users, << <<"reset_token", t>> >>).exc
                 # "InvalidRequestError"

\* C18 witness: two users hold a session token each.
C18_Witness ==
    /\ Len(users) = 2
    /\ users[1].session_id # None
    /\ users[2].session_id # None

\* Row i is the same before and after the last call, the named columns aside.
SameBut(i, columns) ==
    \A c \in UserColumns \ columns : users[i][c] = last.pre[i][c]

\* The rows the last call was aimed at, and the columns it may write.
TargetsOfLast ==
    IF last.op \in {"create_session", "get_reset_password_token"}
    THEN IdsOf(last.pre, last.args.email)
    ELSE IF last.op = "destroy_session"
         THEN {i \in DOMAIN last.pre : last.pre[i].id = last.args.user_id}
         ELSE IF last.op = "update_password"
              THEN {i \in DOMAIN last.pre :
                       last.pre[i].reset_token = last.args.reset_token}
              ELSE {}

ColumnsOfLast ==
    IF last.op \in {"create_session", "destroy_session"} THEN {"session_id"}
    ELSE IF last.op = "get_reset_password_token" THEN {"reset_token"}
         ELSE IF last.op = "update_password"
              THEN {"hashed_password", "reset_token"}
              ELSE {}

\* C19: a call writes only its own columns of its own target row:
\* create_session and destroy_session only the target's session_id,
\* get_reset_password_token only the target's reset_token, update_password
\* only the target's hashed_password and reset_token; no call changes an id,
\* an email or any column of another row.
C19_WritesOnlyOwnFields ==
    /\ DOMAIN last.pre \subseteq DOMAIN users
    /\ \A i \in DOMAIN last.pre :
          IF i \in TargetsOfLast
          THEN SameBut(i, ColumnsOfLast)
          ELSE users[i] = last.pre[i]

\* C19 witness: update_password changed the password of a user that held a
\* session, the session stayed, and the other user's row is as it was.
C19_Witness ==
    /\ last.op = "update_password"
    /\ last.exc = NoExc
    /\ Len(last.pre) = 2
    /\ \E i \in TargetsOfLast :
          /\ last.pre[i].session_id # None
          /\ users[i].session_id = last.pre[i].session_id
          /\ users[i].hashed_password # last.pre[i].hashed_password
          /\ last.pre[i].reset_token # None
          /\ users[i].reset_token = None

\* The keyword arguments name an attribute User does not have.
NamesUnknownField(kwargs) ==
    \E j \in DOMAIN kwargs : kwargs[j][1] \notin UserColumns

\* C17: update_user for an existing id with keyword arguments that name an
\* unrecognized field raises ValueError and leaves the row, as later lookups
\* and updates see it, unchanged, recognized fields passed before the
\* unrecognized one included.
C17_InvalidFieldLeavesRowUnchanged ==
    (/\ last.op = "update_user"
     /\ last.args.user_id \in DOMAIN last.pre
     /\ NamesUnknownField(last.args.kwargs))
        => /\ last.exc = "ValueError"
           /\ users = last.pre
           /\ \A kwargs \in FindKwargs :
                 find_user_by(users, kwargs) = find_user_by(last.pre, kwargs)

C16_OneChangePerResetTokenUnderInterleaving ==
    \A c1, c2 \in Callers :
        (/\ c1 # c2
         /\ pending[c1].op = "update_password" /\ pending[c1].pc = "returned"
         /\ pending[c2].op = "update_password" /\ pending[c2].pc = "returned"
         /\ pending[c1].args.reset_token = pending[c2].args.reset_token
         /\ pending[c1].exc = NoExc)
            => pending[c2].exc = "ValueError"

====
